---- MODULE Spec2Model ----
(***************************************************************************)
(* Two-pass DLX assembler (dlxparser.py, instructions.py, directives.py).  *)
(*                                                                         *)
(* Text is modelled as follows.  A leading token of a line (label,         *)
(* mnemonic, directive name) is the sequence of its pieces: maximal runs   *)
(* of word characters, and the punctuation characters ":" and "." one      *)
(* piece each ("a:" is <<"a", ":">>, ".text" is <<".", "text">>).  A       *)
(* directive argument is its sequence of characters.  An instruction       *)
(* operand is a record naming its lexical shape (register, decimal         *)
(* literal, name, displacement), which is what the operand regular         *)
(* expressions distinguish.  Python values that may be int or str are      *)
(* records tagged with their type.                                         *)
(***************************************************************************)
EXTENDS Integers, Sequences, FiniteSets, TLC

\* ------------------------------------------------------------------ bounds
MaxLines == 2        \* lines of one program text
MaxRuns == 2         \* calls of run() inside one process (SpecRuns)
MaxRunLines == 2     \* lines of one program text under SpecRuns
MaxAlignAddr == 40   \* SpecAlign: the addresses .align is applied to are
NegAlignAddrs == 8   \*   -NegAlignAddrs .. MaxAlignAddr
MaxAlignWidth == 4   \* SpecAlign: the widths n of .align n are
NegAlignWidths == 1  \*   -NegAlignWidths .. MaxAlignWidth

\* ------------------------------------------------------- generic helpers
RECURSIVE Pow2(_)
Pow2(n) == IF n <= 0 THEN 1 ELSE 2 * Pow2(n - 1)

\* a << n on Python integers
Shl(a, n) == a * Pow2(n)

\* a ^ b on non-negative Python integers
RECURSIVE Xor(_, _)
Xor(a, b) ==
    IF a = 0 THEN b
    ELSE IF b = 0 THEN a
    ELSE (((a % 2) + (b % 2)) % 2) + 2 * Xor(a \div 2, b \div 2)

HexChars == <<"0", "1", "2", "3", "4", "5", "6", "7",
              "8", "9", "a", "b", "c", "d", "e", "f">>

RECURSIVE HexDigits(_)
HexDigits(n) == IF n < 16 THEN <<HexChars[n + 1]>>
                ELSE Append(HexDigits(n \div 16), HexChars[(n % 16) + 1])

RECURSIVE ZeroPad(_, _)
ZeroPad(s, width) == IF Len(s) >= width THEN s ELSE ZeroPad(<<"0">> \o s, width)

\* "{0:08x}".format(n): at least eight characters, the sign included
Format08x(n) == IF n < 0 THEN <<"-">> \o ZeroPad(HexDigits(0 - n), 7)
                ELSE ZeroPad(HexDigits(n), 8)

DigitVal(c) == CASE c = "0" -> 0 [] c = "1" -> 1 [] c = "2" -> 2 [] c = "3" -> 3
                 [] c = "4" -> 4 [] c = "5" -> 5 [] c = "6" -> 6 [] c = "7" -> 7
                 [] c = "8" -> 8 [] c = "9" -> 9 [] c = "a" -> 10 [] c = "b" -> 11
                 [] c = "c" -> 12 [] c = "d" -> 13 [] c = "e" -> 14 [] c = "f" -> 15
                 [] c = "A" -> 10 [] c = "B" -> 11 [] c = "C" -> 12 [] c = "D" -> 13
                 [] c = "E" -> 14 [] c = "F" -> 15 [] OTHER -> 99

RECURSIVE ParseDigits(_, _)
ParseDigits(s, base) ==
    IF s = <<>> THEN 0
    ELSE ParseDigits(SubSeq(s, 1, Len(s) - 1), base) * base + DigitVal(s[Len(s)])

HasPrefix0x(s) == Len(s) >= 2 /\ s[1] = "0" /\ s[2] \in {"x", "X"}

\* the text after an optional sign and, in base 16, an optional 0x
Unsigned(s, base) ==
    LET t == IF s # <<>> /\ s[1] \in {"-", "+"} THEN Tail(s) ELSE s
    IN IF base = 16 /\ HasPrefix0x(t) THEN SubSeq(t, 3, Len(t)) ELSE t

\* int(s, base) succeeds
IntOk(s, base) ==
    LET u == Unsigned(s, base)
    IN u # <<>> /\ \A i \in 1..Len(u) : DigitVal(u[i]) < base

\* int(s, base)
PyInt(s, base) ==
    LET m == ParseDigits(Unsigned(s, base), base)
    IN IF s # <<>> /\ s[1] = "-" THEN 0 - m ELSE m

\* s.strip(c) for a one-character set c
RECURSIVE StripLeft(_, _)
StripLeft(s, c) == IF s # <<>> /\ s[1] = c THEN StripLeft(Tail(s), c) ELSE s

RECURSIVE StripRight(_, _)
StripRight(s, c) == IF s # <<>> /\ s[Len(s)] = c
                    THEN StripRight(SubSeq(s, 1, Len(s) - 1), c) ELSE s

Strip(s, c) == StripRight(StripLeft(s, c), c)

RECURSIVE Flatten(_)
Flatten(ss) == IF ss = <<>> THEN <<>> ELSE Head(ss) \o Flatten(Tail(ss))

\* ------------------------------------------------------ Python values
\* an int, a str of decimal digits ("8"), or any other str (a name)
IntVal(v) == [t |-> "int", v |-> v, s |-> <<>>]
DigitStr(v) == [t |-> "digits", v |-> v, s |-> <<>>]
NameStr(s) == [t |-> "str", v |-> 0, s |-> s]

\* ---------------------------------------------------------- statements
\* One record shape for every object firstpass stores; a field an object
\* does not have holds a default.
Stmt(cls, opcode, func, rs1, rs2, rdest, immediate, name, args) ==
    [cls |-> cls, opcode |-> opcode, func |-> func, rs1 |-> rs1, rs2 |-> rs2,
     rdest |-> rdest, immediate |-> immediate, name |-> name, args |-> args]

\* Directive.__init__
Directive(cls, args) ==
    Stmt(cls, 0, 0, 0, 0, 0, IntVal(0), IntVal(0), args)

DirectiveClasses == {"TextDirective", "DataDirective", "AlignDirective",
                     "AsciizDirective", "DoubleDirective", "FloatDirective",
                     "WordDirective", "SpaceDirective"}

\* DIRECTIVES: directive token -> class
DIRECTIVES ==
    (<<".", "text">> :> "TextDirective") @@ (<<".", "data">> :> "DataDirective") @@
    (<<".", "align">> :> "AlignDirective") @@ (<<".", "asciiz">> :> "AsciizDirective") @@
    (<<".", "double">> :> "DoubleDirective") @@ (<<".", "float">> :> "FloatDirective") @@
    (<<".", "word">> :> "WordDirective") @@ (<<".", "space">> :> "SpaceDirective")

\* ------------------------------------------------- directive addresses
\* Directive.nextaddress(curraddr, datasize)
BaseNextaddress(args, curraddr, datasize) == curraddr + Len(args) * datasize

\* Directive.nextaddresses(curraddr, datasize)
BaseNextaddresses(args, curraddr, datasize) ==
    [x \in 1..Len(args) |-> curraddr + datasize * (x - 1)]

TextNextaddress(args, curraddr) ==
    IF args # <<>> THEN PyInt(args[1], 16) ELSE 0

DataNextaddress(args, curraddr) ==
    IF args # <<>> THEN PyInt(args[1], 16) ELSE 512

\* rounding down instead of up
AlignNextaddress_Down(args, curraddr) ==
    LET n == PyInt(args[1], 10)
        multof == Pow2(n)
    IN IF n < 0 THEN curraddr
       ELSE (curraddr \div multof) * multof

\* the test for an aligned address left out
AlignNextaddress_NoTest(args, curraddr) ==
    LET n == PyInt(args[1], 10)
        multof == Pow2(n)
    IN IF n < 0 THEN curraddr
       ELSE (curraddr \div multof) * multof + multof

\* multiples of 2 * n instead of 2^n
AlignNextaddress_Linear(args, curraddr) ==
    LET n == PyInt(args[1], 10)
        multof == 2 * n
    IN IF n <= 0 THEN curraddr
       ELSE IF curraddr % multof = 0 THEN curraddr
       ELSE (curraddr \div multof) * multof + multof

\* pow(2, n) is a float below 1 for negative n, and every integer is a
\* multiple of it
AlignNextaddress(args, curraddr) ==
    LET n == PyInt(args[1], 10)
        multof == Pow2(n)
    IN IF n < 0 THEN curraddr
       ELSE IF curraddr % multof = 0 THEN curraddr
       ELSE (curraddr \div multof) * multof + multof

RECURSIVE AsciizBytelength(_)
AsciizBytelength(args) ==
    IF args = <<>> THEN 0
    ELSE Len(Strip(Head(args), "\"")) + 1 + AsciizBytelength(Tail(args))

AsciizNextaddress(args, curraddr) == AsciizBytelength(args) + curraddr

\* the leading slot left out: the slot after every string
AsciizNextaddresses_After(args, curraddr) ==
    [x \in 1..Len(args) |-> curraddr + AsciizBytelength(SubSeq(args, 1, x))]

\* one leading slot, then one slot after every string: Len(args) + 1 slots
AsciizNextaddresses(args, curraddr) ==
    [x \in 1..(Len(args) + 1) |-> curraddr + AsciizBytelength(SubSeq(args, 1, x - 1))]

SpaceNextaddress(args, curraddr) == curraddr + PyInt(args[1], 10)

\* the exception nextaddress raises for these arguments, "" for none
NextaddressError(st) ==
    CASE st.cls \in {"TextDirective", "DataDirective"} ->
            IF st.args # <<>> /\ ~IntOk(st.args[1], 16) THEN "ValueError" ELSE ""
      [] st.cls \in {"AlignDirective", "SpaceDirective"} ->
            IF st.args = <<>> THEN "IndexError"
            ELSE IF ~IntOk(st.args[1], 10) THEN "ValueError" ELSE ""
      [] OTHER -> ""

\* an instruction taken to occupy two words
InstructionNextaddress_Wide(curraddr) == curraddr + 8

\* Instruction.nextaddress
InstructionNextaddress(curraddr) == curraddr + 4

\* obj.nextaddress(curraddr), dispatched on the class of the object
Nextaddress(st, curraddr) ==
    CASE st.cls = "TextDirective" -> TextNextaddress(st.args, curraddr)
      [] st.cls = "DataDirective" -> DataNextaddress(st.args, curraddr)
      [] st.cls = "AlignDirective" -> AlignNextaddress(st.args, curraddr)
      [] st.cls = "AsciizDirective" -> AsciizNextaddress(st.args, curraddr)
      [] st.cls = "DoubleDirective" -> BaseNextaddress(st.args, curraddr, 8)
      [] st.cls = "FloatDirective" -> BaseNextaddress(st.args, curraddr, 4)
      [] st.cls = "WordDirective" -> BaseNextaddress(st.args, curraddr, 4)
      [] st.cls = "SpaceDirective" -> SpaceNextaddress(st.args, curraddr)
      [] OTHER -> InstructionNextaddress(curraddr)

\* obj.nextaddresses(curraddr) of the directives that encode to a list
Nextaddresses(st, curraddr) ==
    CASE st.cls = "AsciizDirective" -> AsciizNextaddresses(st.args, curraddr)
      [] st.cls = "DoubleDirective" -> BaseNextaddresses(st.args, curraddr, 8)
      [] st.cls = "FloatDirective" -> BaseNextaddresses(st.args, curraddr, 4)
      [] st.cls = "WordDirective" -> BaseNextaddresses(st.args, curraddr, 4)
      [] OTHER -> <<>>

\* ------------------------------------------------- directive encodings
\* What encode returns: a str (one line) or a list of str (one line each).
StrEncoding(h) == [kind |-> "str", items |-> <<h>>]
ListEncoding(hs) == [kind |-> "list", items |-> hs]
\* Directive.encode returns ""
EmptyEncoding == [kind |-> "str", items |-> <<>>]

\* the encoding is falsy: "" or []
Falsy(enc) == enc.items = <<>>

Hex4(n) == ZeroPad(HexDigits(n), 4)
Hex2(n) == ZeroPad(HexDigits(n), 2)

\* ord(c) of the characters the strings of the model are made of
Ord(c) == CASE c = "h" -> 104 [] c = "i" -> 105 [] c = " " -> 32
            [] c = "\"" -> 34 [] OTHER -> 63

\* (asciiword.strip('"') + '\0').encode('hex')
AsciizHex(asciiword) ==
    LET w == Strip(asciiword, "\"")
    IN Flatten([i \in 1..Len(w) |-> Hex2(Ord(w[i]))]) \o Hex2(0)

AsciizEncode(args) == ListEncoding([i \in 1..Len(args) |-> AsciizHex(args[i])])

\* '0x' in val
Contains0x(val) == \E i \in 1..(Len(val) - 1) : val[i] = "0" /\ val[i + 1] = "x"

\* val.strip(', ')
StripArg(val) ==
    LET RECURSIVE L(_)
        L(x) == IF x # <<>> /\ x[1] \in {",", " "} THEN L(Tail(x)) ELSE x
        RECURSIVE R(_)
        R(x) == IF x # <<>> /\ x[Len(x)] \in {",", " "}
                THEN R(SubSeq(x, 1, Len(x) - 1)) ELSE x
    IN R(L(val))

WordBase(val) == IF Contains0x(StripArg(val)) THEN 16 ELSE 10

\* struct.pack('>i', v) in hex: four bytes, big-endian, two's complement
PackInt(v) == Hex4((v \div 65536) % 65536) \o Hex4(v % 65536)

RECURSIVE Log2(_)
Log2(v) == IF v < 2 THEN 0 ELSE 1 + Log2(v \div 2)

Abs(v) == IF v < 0 THEN 0 - v ELSE v

\* struct.pack('>f', v) in hex for an integral v of magnitude below 2^16
PackFloat(v) ==
    LET sign == IF v < 0 THEN 1 ELSE 0
        e == Log2(Abs(v))
        exp == IF v = 0 THEN 0 ELSE 127 + e
        mant == IF v = 0 THEN 0 ELSE (Abs(v) - Pow2(e)) * Pow2(23 - e)
    IN Hex4(sign * 32768 + exp * 128 + (mant \div 65536)) \o Hex4(mant % 65536)

\* struct.pack('>d', v) in hex for an integral v of magnitude below 2^16
PackDouble(v) ==
    LET sign == IF v < 0 THEN 1 ELSE 0
        e == Log2(Abs(v))
        exp == IF v = 0 THEN 0 ELSE 1023 + e
        mant20 == IF v = 0 THEN 0 ELSE (Abs(v) - Pow2(e)) * Pow2(20 - e)
    IN Hex4(sign * 32768 + exp * 16 + (mant20 \div 65536)) \o Hex4(mant20 % 65536)
       \o Hex4(0) \o Hex4(0)

\* Directive.encodef(formatstring); float literals are integral numerals
EncodefValue(val, formatstring) ==
    IF formatstring = ">i" THEN PyInt(StripArg(val), WordBase(val))
    ELSE PyInt(StripArg(val), 10)

EncodefOk(args, formatstring) ==
    \A i \in 1..Len(args) :
        IF formatstring = ">i" THEN IntOk(StripArg(args[i]), WordBase(args[i]))
        ELSE IntOk(StripArg(args[i]), 10)

Encodef(args, formatstring) ==
    ListEncoding([i \in 1..Len(args) |->
        CASE formatstring = ">i" -> PackInt(EncodefValue(args[i], formatstring))
          [] formatstring = ">f" -> PackFloat(EncodefValue(args[i], formatstring))
          [] OTHER -> PackDouble(EncodefValue(args[i], formatstring))])

FormatOf(cls) == CASE cls = "WordDirective" -> ">i"
                   [] cls = "FloatDirective" -> ">f"
                   [] OTHER -> ">d"

\* encode() of a directive object
DirectiveEncode(st) ==
    CASE st.cls = "AsciizDirective" -> AsciizEncode(st.args)
      [] st.cls \in {"WordDirective", "FloatDirective", "DoubleDirective"} ->
            Encodef(st.args, FormatOf(st.cls))
      [] OTHER -> EmptyEncoding

DirectiveEncodeError(st) ==
    IF st.cls \in {"WordDirective", "FloatDirective", "DoubleDirective"}
       /\ ~EncodefOk(st.args, FormatOf(st.cls))
    THEN "ValueError" ELSE ""

\* ------------------------------------------------------ opcode tables
\* The tables loadopcodes fills from the files Itypes, Jtypes and Rtypes;
\* the entries are the DLX mnemonics the programs of the model use.
I_OPCODES == (<<"addi">> :> 8) @@ (<<"beqz">> :> 4) @@ (<<"trap">> :> 17)

J_OPCODES == (<<"j">> :> 2)

R_OPCODES == (<<"add">> :> 0) @@ (<<"addf">> :> 1) @@ (<<"nop">> :> 0)

R_FUNCCODES == (<<"add">> :> 32) @@ (<<"addf">> :> 0) @@ (<<"nop">> :> 0)

\* filled in the order I, J, R: a later table overwrites an earlier entry
OPCODES == R_OPCODES @@ J_OPCODES @@ I_OPCODES

\* mapinstructions
INSTRUCTIONS == (<<"beqz">> :> "Branch") @@ (<<"bnez">> :> "Branch") @@
                (<<"trap">> :> "Trap")

\* ----------------------------------------------------------- operands
\* lexical shapes of one comma-separated operand of an instruction line
Reg(n) == [k |-> "reg", n |-> n, v |-> 0, s |-> <<>>]          \* r<n>, f<n>
Num(v) == [k |-> "num", n |-> 0, v |-> v, s |-> <<>>]          \* decimal digits
Name(s) == [k |-> "name", n |-> 0, v |-> 0, s |-> s]           \* an identifier
Disp(v, n) == [k |-> "disp", n |-> n, v |-> v, s |-> <<>>]     \* <v>(r<n>)

\* the dict parseoperands returns: the keys present and their values
Operands(keys, rdest, rs1, rs2, immediate, name) ==
    [keys |-> keys, rdest |-> rdest, rs1 |-> rs1, rs2 |-> rs2,
     immediate |-> immediate, name |-> name]

NoOperands == Operands({}, 0, 0, 0, IntVal(0), IntVal(0))

\* what ((?![rRfF]\d{1,2})\w+) and (\w+) capture at an operand
WordText(o) == IF o.k = "name" THEN NameStr(o.s) ELSE DigitStr(o.v)

\* the operand starts with a word that is not a register
StartsWord(o) == o.k \in {"num", "name", "disp"}

\* the shape of the i-th operand of the line, "none" past the last
Shape(ops, i) == IF i <= Len(ops) THEN ops[i].k ELSE "none"

\* parseoperands: the patterns in order, the first that matches wins.
\* haslabel: the line starts with a label token, which no pattern can use
\* as its leading \w+[ ]+ and which defeats the ^ anchor of re3.
\* Displacements are non-negative.
parseoperands(haslabel, ops) ==
    IF Shape(ops, 1) = "reg" /\ Shape(ops, 2) = "disp" THEN                \* re1
        Operands({"rdest", "immediate", "rs1"}, ops[1].n, ops[2].n, 0,
                 IntVal(ops[2].v), IntVal(0))
    ELSE IF Shape(ops, 1) = "reg" /\ Shape(ops, 2) = "name" THEN           \* re11
        Operands({"rdest", "immediate"}, ops[1].n, 0, 0,
                 NameStr(ops[2].s), IntVal(0))
    ELSE IF Shape(ops, 1) = "disp" /\ Shape(ops, 2) = "reg" THEN           \* re2
        Operands({"rdest", "immediate", "rs1"}, ops[2].n, ops[1].n, 0,
                 IntVal(ops[1].v), IntVal(0))
    ELSE IF Shape(ops, 1) \in {"num", "name"} /\ Shape(ops, 2) = "reg" THEN \* re22
        Operands({"rdest", "immediate"}, ops[2].n, 0, 0,
                 WordText(ops[1]), IntVal(0))
    ELSE IF ~haslabel /\ Len(ops) = 2 /\ Shape(ops, 1) = "reg"
            /\ Shape(ops, 2) = "reg" THEN                                  \* re3
        Operands({"rdest", "rs1"}, ops[1].n, ops[2].n, 0,
                 IntVal(0), IntVal(0))
    ELSE IF Shape(ops, 1) = "reg" /\ Shape(ops, 2) = "reg"
            /\ Shape(ops, 3) = "reg" THEN                                  \* re4
        Operands({"rdest", "rs1", "rs2"}, ops[1].n, ops[2].n, ops[3].n,
                 IntVal(0), IntVal(0))
    ELSE IF Shape(ops, 1) = "reg" /\ Shape(ops, 2) = "reg"
            /\ Len(ops) >= 3 /\ StartsWord(ops[3]) THEN                    \* re5
        Operands({"rdest", "rs1", "immediate"}, ops[1].n, ops[2].n, 0,
                 WordText(ops[3]), IntVal(0))
    ELSE IF Shape(ops, 1) = "reg" /\ Shape(ops, 2) = "num" THEN            \* re6
        Operands({"rdest", "immediate"}, ops[1].n, 0, 0,
                 IntVal(ops[2].v), IntVal(0))
    ELSE IF Len(ops) >= 1 /\ StartsWord(ops[1]) THEN                       \* re7
        Operands({"name"}, 0, 0, 0, IntVal(0), WordText(ops[1]))
    ELSE IF Shape(ops, 1) = "reg" THEN                                     \* re8
        Operands({"rs1"}, 0, ops[1].n, 0, IntVal(0), IntVal(0))
    ELSE NoOperands

\* -------------------------------------------------------- instructions
InstructionClasses == {"IType", "Branch", "Trap", "JType", "RALU", "RFPU"}

\* the keyword parameters each constructor accepts
Keywords(cls) ==
    CASE cls \in {"IType", "Branch"} -> {"rs1", "rdest", "immediate"}
      [] cls \in {"Trap", "JType"} -> {"name"}
      [] OTHER -> {"rs1", "rs2", "rdest"}

\* the value of a keyword parameter: the operand when given, else the default 0
Kw(ov, key, given, default) == IF key \in ov.keys THEN given ELSE default

\* IType.__init__
IType(opcode, ov) ==
    Stmt("IType", opcode, 0, Kw(ov, "rs1", ov.rs1, 0), 0, Kw(ov, "rdest", ov.rdest, 0),
         Kw(ov, "immediate", ov.immediate, IntVal(0)), IntVal(0), <<>>)

\* Branch.__init__: the two register fields are stored swapped
Branch(opcode, ov) ==
    Stmt("Branch", opcode, 0, Kw(ov, "rdest", ov.rdest, 0), 0, Kw(ov, "rs1", ov.rs1, 0),
         Kw(ov, "immediate", ov.immediate, IntVal(0)), IntVal(0), <<>>)

\* Trap.__init__
Trap(opcode, ov) ==
    Stmt("Trap", opcode, 0, 0, 0, 0, Kw(ov, "name", ov.name, IntVal(0)), IntVal(0), <<>>)

\* JType.__init__
JType(opcode, ov) ==
    Stmt("JType", opcode, 0, 0, 0, 0, IntVal(0), Kw(ov, "name", ov.name, IntVal(0)), <<>>)

\* RType.__init__, for the subclasses RALU and RFPU
RType(cls, opcode, func, ov) ==
    Stmt(cls, opcode, func, Kw(ov, "rs1", ov.rs1, 0), Kw(ov, "rs2", ov.rs2, 0),
         Kw(ov, "rdest", ov.rdest, 0), IntVal(0), IntVal(0), <<>>)

\* the class opcodehandler instantiates for a mnemonic
InstrClass(opcodetoken) ==
    IF opcodetoken \in DOMAIN R_OPCODES
    THEN (IF R_OPCODES[opcodetoken] = 0 THEN "RALU" ELSE "RFPU")
    ELSE IF opcodetoken \in DOMAIN J_OPCODES THEN "JType"
    ELSE IF opcodetoken \in DOMAIN INSTRUCTIONS THEN INSTRUCTIONS[opcodetoken]
    ELSE "IType"

\* opcodehandler: the instruction object built from the mnemonic and the
\* operand values
opcodehandler(opcodetoken, ov) ==
    LET cls == InstrClass(opcodetoken)
        opcode == OPCODES[opcodetoken]
    IN CASE cls = "IType" -> IType(opcode, ov)
         [] cls = "Branch" -> Branch(opcode, ov)
         [] cls = "Trap" -> Trap(opcode, ov)
         [] cls = "JType" -> JType(opcode, ov)
         [] OTHER -> RType(cls, opcode, R_FUNCCODES[opcodetoken], ov)

\* the constructor call fails on a keyword it does not accept
opcodehandlerError(opcodetoken, ov) ==
    IF ov.keys \subseteq Keywords(InstrClass(opcodetoken)) THEN "" ELSE "TypeError"

\* needsPC
needsPC(st) == st.cls \in {"JType", "Branch"}

\* The symbolic operand of an instruction object: immediate, or name for a
\* jump.
Symbolic(st) == IF st.cls = "JType" THEN st.name ELSE st.immediate

\* the deferred resolution at the head of every encode: a str of digits
\* becomes its value, any other str is looked up in SYMTAB
ResolveError(st, symtab) ==
    IF Symbolic(st).t = "str" /\ Symbolic(st).s \notin DOMAIN symtab
    THEN "KeyError" ELSE ""

\* a name taken for the number 0 instead of being looked up
Resolve_Zero(st, symtab) ==
    LET x == Symbolic(st)
    IN CASE x.t = "int" -> x.v
         [] x.t = "digits" -> x.v
         [] OTHER -> 0

Resolve(st, symtab) ==
    LET x == Symbolic(st)
    IN CASE x.t = "int" -> x.v
         [] x.t = "digits" -> x.v
         [] OTHER -> symtab[x.s]

\* IType.encode
ITypeEncode(st, imm) ==
    Format08x(Xor(Shl(Xor(Shl(Xor(Shl(st.opcode, 5), st.rs1), 5), st.rdest), 16),
                  imm % 65536))

\* Branch.encode
BranchEncode(st, imm, curraddr) ==
    LET relativeaddr == imm - (curraddr + 4)
    IN Format08x(Xor(Shl(Xor(Shl(Xor(Shl(st.opcode, 5), st.rs1), 5), st.rdest), 16),
                     relativeaddr % 65536))

\* the offset taken from the address of the jump itself
JTypeEncode_FromSelf(st, target, curraddr) ==
    LET relativeaddr == target - curraddr
    IN Format08x(Xor(Shl(st.opcode, 26), relativeaddr % 67108864))

\* JType.encode
JTypeEncode(st, target, curraddr) ==
    LET relativeaddr == target - (curraddr + 4)
    IN Format08x(Xor(Shl(st.opcode, 26), relativeaddr % 67108864))

\* the word RALU.encode formats
RALUWord(opcode, func, rs1, rs2, rdest) ==
    Shl(Shl(Shl(Shl(Shl(opcode, 5) + rs1, 5) + rs2, 5) + rdest, 5), 6) + func

\* the word RFPU.encode formats
RFPUWord(opcode, func, rs1, rs2, rdest) ==
    Shl(Shl(Shl(Shl(Shl(opcode, 5) + rs1, 5) + rs2, 5) + rdest, 6), 5) + func

\* RALU.encode
RALUEncode(st) == Format08x(RALUWord(st.opcode, st.func, st.rs1, st.rs2, st.rdest))

\* RFPU.encode
RFPUEncode(st) == Format08x(RFPUWord(st.opcode, st.func, st.rs1, st.rs2, st.rdest))

\* instruction.encode(curraddr) or instruction.encode(), as secondpass calls it
Encode(st, symtab, curraddr) ==
    CASE st.cls \in {"IType", "Trap"} -> StrEncoding(ITypeEncode(st, Resolve(st, symtab)))
      [] st.cls = "Branch" -> StrEncoding(BranchEncode(st, Resolve(st, symtab), curraddr))
      [] st.cls = "JType" -> StrEncoding(JTypeEncode(st, Resolve(st, symtab), curraddr))
      [] st.cls = "RALU" -> StrEncoding(RALUEncode(st))
      [] st.cls = "RFPU" -> StrEncoding(RFPUEncode(st))
      [] OTHER -> DirectiveEncode(st)

EncodeError(st, symtab) ==
    CASE st.cls \in {"IType", "Trap", "Branch", "JType"} -> ResolveError(st, symtab)
      [] st.cls \in {"RALU", "RFPU"} -> ""
      [] OTHER -> DirectiveEncodeError(st)

\* the object after encode: the symbolic field holds the resolved integer
Resolved(st, symtab) ==
    CASE st.cls \in {"IType", "Trap", "Branch"} ->
            [st EXCEPT !.immediate = IntVal(Resolve(st, symtab))]
      [] st.cls = "JType" -> [st EXCEPT !.name = IntVal(Resolve(st, symtab))]
      [] OTHER -> st

\* ------------------------------------------------------- source lines
\* A line after comment removal and strip(): its leading tokens (label
\* and/or mnemonic or directive name), then the operands of an
\* instruction or the ", "-separated arguments of a directive.
Line(toks, ops, args) == [toks |-> toks, ops |-> ops, args |-> args]

\* the length test off by one
OneToken_Two(line) == Len(line.toks) + Len(line.ops) + Len(line.args) = 2

\* len(partitioned.split()) == 1
OneToken(line) == Len(line.toks) = 1 /\ line.ops = <<>> /\ line.args = <<>>

\* tokens[1]; an operand is neither a directive nor an opcode
SecondToken(line) == IF Len(line.toks) >= 2 THEN line.toks[2] ELSE <<"?">>

\* --------------------------------------------------------- symbol table
EmptyTab == [x \in {} |-> 0]

\* SYMTAB[key] = value
Put(symtab, key, value) ==
    [x \in (DOMAIN symtab) \cup {key} |-> IF x = key THEN value ELSE symtab[x]]

\* matchlabel raises "Duplicate symbol" when the token as written is a key
matchlabelRaises(tomatch, symtab) == tomatch \in DOMAIN symtab

\* matchlabel: the token ends with ":"
matchlabel(tomatch) == tomatch[Len(tomatch)] = ":"

\* matchopcode
matchopcode(tomatch) == tomatch \in DOMAIN OPCODES

\* matchdirective
matchdirective(tomatch) == tomatch[1] = "." /\ tomatch \in DOMAIN DIRECTIVES

\* directivehandler: the directive object of a line
directivehandler(line) ==
    LET directivetoken == IF matchlabel(line.toks[1]) THEN line.toks[2]
                          ELSE line.toks[1]
    IN Directive(DIRECTIVES[directivetoken], line.args)

\* ------------------------------------------------------------- pass 1
Outcome1(err, symtab, curraddr, appended, st) ==
    [error |-> err, SYMTAB |-> symtab, curraddr |-> curraddr,
     appended |-> appended, stmt |-> st]

NoStmt == Directive("none", <<>>)

\* One iteration of the loop of firstpass over a line: the exception raised
\* ("" for none), the symbol table and the address after it, and the object
\* appended to instructionlist, if any.
firstpassLine(line, symtab, curraddr) ==
    IF line.toks = <<>> THEN Outcome1("", symtab, curraddr, FALSE, NoStmt)
    ELSE IF matchlabelRaises(line.toks[1], symtab)
    THEN Outcome1("Duplicate symbol", symtab, curraddr, FALSE, NoStmt)
    ELSE
      LET islabel == matchlabel(line.toks[1])
          symtab1 == IF islabel THEN Put(symtab, Strip(line.toks[1], ":"), curraddr)
                     ELSE symtab
          partitioned == IF islabel /\ OneToken(line)
                         THEN [line EXCEPT !.toks = Append(@, <<"nop">>)]
                         ELSE line
          token1 == IF ~islabel THEN line.toks[1]
                    ELSE IF OneToken(line) THEN <<"nop">>
                    ELSE SecondToken(line)
      IN IF matchdirective(token1) THEN
            LET directiveobj == directivehandler(partitioned)
            IN IF matchlabelRaises(partitioned.toks[1], symtab1)
               THEN Outcome1("Duplicate symbol", symtab1, curraddr, FALSE, NoStmt)
               ELSE IF NextaddressError(directiveobj) # ""
               THEN Outcome1(NextaddressError(directiveobj), symtab1, curraddr,
                             FALSE, NoStmt)
               ELSE Outcome1("", symtab1, Nextaddress(directiveobj, curraddr),
                             TRUE, directiveobj)
         ELSE IF matchopcode(token1) THEN
            LET ov == parseoperands(islabel, partitioned.ops)
            IN IF matchlabelRaises(partitioned.toks[1], symtab1)
               THEN Outcome1("Duplicate symbol", symtab1, curraddr, FALSE, NoStmt)
               ELSE IF opcodehandlerError(token1, ov) # ""
               THEN Outcome1(opcodehandlerError(token1, ov), symtab1, curraddr,
                             FALSE, NoStmt)
               ELSE Outcome1("", symtab1, curraddr + 4, TRUE,
                             opcodehandler(token1, ov))
         ELSE Outcome1("Expected directive or opcode.", symtab1, curraddr,
                       FALSE, NoStmt)

\* ------------------------------------------------------------- pass 2
\* one line of the listing: "{0:08x}: ".format(addr) + encoding
OutLine(addr, enc) == [address |-> Format08x(addr), encoding |-> enc]

\* zip(addresses, encoding)
Zip(addresses, encoding) ==
    LET m == IF Len(addresses) < Len(encoding) THEN Len(addresses) ELSE Len(encoding)
    IN [i \in 1..m |-> OutLine(addresses[i], encoding[i])]

\* the lines one iteration of the loop of secondpass appends to outputdata
Emitted(st, symtab, curraddr) ==
    LET encoding == Encode(st, symtab, curraddr)
    IN IF Falsy(encoding) THEN <<>>
       ELSE IF encoding.kind = "str" THEN <<OutLine(curraddr, encoding.items[1])>>
       ELSE Zip(Nextaddresses(st, curraddr), encoding.items)

\* ------------------------------------------------------ program texts
LabelA == <<"a", ":">>
LabelNop == <<"nop", ":">>
Chars2(a, b) == <<a, b>>
QuotedHi == <<"\"", "h", "i", "\"">>
QuotedH == <<"\"", "h", "\"">>

\* the lines program texts are made of
Lines ==
    { Line(<<>>, <<>>, <<>>),                                    \* ; comment
      Line(<<LabelA>>, <<>>, <<>>),                              \* a:
      Line(<<LabelNop>>, <<>>, <<>>),                            \* nop:
      Line(<<<<"nop">>>>, <<>>, <<>>),                           \* nop
      Line(<<LabelA, <<"add">>>>, <<Reg(1), Reg(2), Reg(3)>>, <<>>), \* a: add r1, r2, r3
      Line(<<<<"add">>>>, <<Reg(31), Reg(2), Reg(32)>>, <<>>),   \* add r31, r2, r32
      Line(<<<<"addf">>>>, <<Reg(99), Reg(0), Reg(31)>>, <<>>),  \* addf f99, f0, f31
      Line(<<<<"add">>>>, <<>>, <<>>),                           \* add
      Line(<<<<"addi">>>>, <<Reg(1), Reg(2), Num(8)>>, <<>>),    \* addi r1, r2, 8
      Line(<<<<"addi">>>>, <<Reg(1), Reg(2), Reg(3)>>, <<>>),    \* addi r1, r2, r3
      Line(<<<<"addi">>>>, <<Reg(1), Reg(2), Name(<<"a">>)>>, <<>>), \* addi r1, r2, a
      Line(<<<<"j">>>>, <<Name(<<"a">>)>>, <<>>),                \* j a
      Line(<<<<"beqz">>>>, <<Reg(1), Name(<<"a">>)>>, <<>>),     \* beqz r1, a
      Line(<<<<"beqz">>>>, <<Reg(1), Num(32772)>>, <<>>),        \* beqz r1, 32772
      Line(<<<<"foo">>>>, <<>>, <<>>),                           \* foo
      Line(<<<<".", "text">>>>, <<>>, <<>>),                     \* .text
      Line(<<<<".", "text">>>>, <<>>, <<Chars2("1", "0")>>),     \* .text 10
      Line(<<<<".", "data">>>>, <<>>, <<>>),                     \* .data
      Line(<<<<".", "align">>>>, <<>>, <<<<"2">>>>),             \* .align 2
      Line(<<<<".", "space">>>>, <<>>, <<<<"3">>>>),             \* .space 3
      Line(<<<<".", "space">>>>, <<>>, <<Chars2("-", "6")>>),    \* .space -6
      Line(<<<<".", "asciiz">>>>, <<>>, <<QuotedHi, QuotedH>>),  \* .asciiz "hi", "h"
      Line(<<<<".", "word">>>>, <<>>,
           <<Chars2("1", "0"), <<"0", "x", "1", "F">>>>),        \* .word 10, 0x1F
      Line(<<<<".", "word">>>>, <<>>, <<>>),                     \* .word
      Line(<<<<".", "float">>>>, <<>>, <<<<"1">>>>),             \* .float 1
      Line(<<<<".", "double">>>>, <<>>, <<<<"1">>, <<"2">>>>) }  \* .double 1, 2

\* the lines of the program texts assembled several times in one process
RunLines ==
    { Line(<<LabelA>>, <<>>, <<>>),
      Line(<<LabelNop>>, <<>>, <<>>),
      Line(<<<<"nop">>>>, <<>>, <<>>),
      Line(<<<<"j">>>>, <<Name(<<"a">>)>>, <<>>),
      Line(<<<<".", "space">>>>, <<>>, <<<<"3">>>>) }

\* the program texts of at most max lines
Texts(lines, max) == UNION {[1..n -> lines] : n \in 0..max}

\* ---------------------------------------------------------------- state
VARIABLES
    SYMTAB,            \* the module global symbol table of dlxparser
    pc,                \* where run() is: idle, pass1, pass2, done, failed
    inputdata,         \* the lines of the program text given to run()
    lineno,            \* firstpass: the line the loop is at
    curraddr,          \* the address counter of the pass that is running
    instructionlist,   \* the objects firstpass has stored
    stmtno,            \* secondpass: the object the loop is at
    outputdata,        \* the listing lines secondpass has produced
    result,            \* what run() returned to its caller, if it returned
    error,             \* the exception run() raised, "" for none
    runs,              \* calls of run() so far in this process
    addrs1,            \* history: curraddr of firstpass before each stored object
    addrs2,            \* history: curraddr of secondpass before each object
    probe              \* an address policy applied on its own (SpecAlign)

vars == <<SYMTAB, pc, inputdata, lineno, curraddr, instructionlist, stmtno,
          outputdata, result, error, runs, addrs1, addrs2, probe>>

\* no address policy is being applied on its own
NoProbe == [a |-> 0, n |-> 0, applied |-> 0, r |-> 0, prev |-> 0]

NoResult == [returned |-> FALSE, listing |-> <<>>]
Returned(listing) == [returned |-> TRUE, listing |-> listing]

\* the process after import of dlxparser: SYMTAB = {}
Init ==
    /\ SYMTAB = EmptyTab
    /\ pc = "idle"
    /\ inputdata = <<>>
    /\ lineno = 1
    /\ curraddr = 0
    /\ instructionlist = <<>>
    /\ stmtno = 1
    /\ outputdata = <<>>
    /\ result = NoResult
    /\ error = ""
    /\ runs = 0
    /\ addrs1 = <<>>
    /\ addrs2 = <<>>
    /\ probe = NoProbe

\* run(inputdata) is called and firstpass starts; SYMTAB is left as it is
run(text) ==
    /\ inputdata' = text
    /\ pc' = "pass1"
    /\ lineno' = 1
    /\ curraddr' = 0
    /\ instructionlist' = <<>>
    /\ stmtno' = 1
    /\ outputdata' = <<>>
    /\ result' = NoResult
    /\ error' = ""
    /\ runs' = runs + 1
    /\ addrs1' = <<>>
    /\ addrs2' = <<>>
    /\ UNCHANGED <<SYMTAB, probe>>

\* dlxas.main: one call of run() in the life of the process
Assemble ==
    /\ pc = "idle"
    /\ \E text \in Texts(Lines, MaxLines) : run(text)

\* a caller of dlxparser.run that assembles again in the same process
Reassemble ==
    /\ pc \in {"idle", "done", "failed"}
    /\ runs < MaxRuns
    /\ \E text \in Texts(RunLines, MaxRunLines) : run(text)

\* firstpass: one iteration of the loop over the lines
FirstpassLine ==
    /\ pc = "pass1"
    /\ lineno <= Len(inputdata)
    /\ LET o == firstpassLine(inputdata[lineno], SYMTAB, curraddr)
       IN /\ SYMTAB' = o.SYMTAB
          /\ IF o.error # ""
             THEN /\ pc' = "failed"
                  /\ error' = o.error
                  /\ UNCHANGED <<lineno, curraddr, instructionlist, addrs1>>
             ELSE /\ lineno' = lineno + 1
                  /\ curraddr' = o.curraddr
                  /\ instructionlist' = IF o.appended
                                        THEN Append(instructionlist, o.stmt)
                                        ELSE instructionlist
                  /\ addrs1' = IF o.appended THEN Append(addrs1, curraddr)
                               ELSE addrs1
                  /\ UNCHANGED <<pc, error>>
    /\ UNCHANGED <<inputdata, stmtno, outputdata, result, runs, addrs2, probe>>

\* firstpass returns instructionlist and secondpass starts
FirstpassReturn ==
    /\ pc = "pass1"
    /\ lineno > Len(inputdata)
    /\ pc' = "pass2"
    /\ curraddr' = 0
    /\ stmtno' = 1
    /\ outputdata' = <<>>
    /\ UNCHANGED <<SYMTAB, inputdata, lineno, instructionlist, result, error,
                   runs, addrs1, addrs2, probe>>

\* the loop of secondpass with a handler that returns the lines produced
\* so far when encode raises
SecondpassStatement_Partial ==
    /\ pc = "pass2"
    /\ stmtno <= Len(instructionlist)
    /\ LET instruction == instructionlist[stmtno]
       IN IF EncodeError(instruction, SYMTAB) # ""
          THEN /\ pc' = "failed"
               /\ error' = EncodeError(instruction, SYMTAB)
               /\ result' = Returned(outputdata)
               /\ UNCHANGED <<curraddr, instructionlist, stmtno, outputdata, addrs2>>
          ELSE /\ outputdata' = outputdata \o Emitted(instruction, SYMTAB, curraddr)
               /\ instructionlist' = [instructionlist EXCEPT
                                         ![stmtno] = Resolved(instruction, SYMTAB)]
               /\ curraddr' = Nextaddress(instruction, curraddr)
               /\ stmtno' = stmtno + 1
               /\ addrs2' = Append(addrs2, curraddr)
               /\ UNCHANGED <<pc, error, result>>
    /\ UNCHANGED <<SYMTAB, inputdata, lineno, runs, addrs1, probe>>

\* the loop of secondpass over a table that enters a name it is asked for
\* and does not hold
SecondpassStatement_Entering ==
    /\ pc = "pass2"
    /\ stmtno <= Len(instructionlist)
    /\ LET instruction == instructionlist[stmtno]
       IN IF EncodeError(instruction, SYMTAB) # ""
          THEN /\ pc' = "failed"
               /\ error' = EncodeError(instruction, SYMTAB)
               /\ SYMTAB' = IF EncodeError(instruction, SYMTAB) = "KeyError"
                             THEN Put(SYMTAB, Symbolic(instruction).s, 0)
                             ELSE SYMTAB
               /\ UNCHANGED <<curraddr, instructionlist, stmtno, outputdata, addrs2>>
          ELSE /\ outputdata' = outputdata \o Emitted(instruction, SYMTAB, curraddr)
               /\ instructionlist' = [instructionlist EXCEPT
                                         ![stmtno] = Resolved(instruction, SYMTAB)]
               /\ curraddr' = Nextaddress(instruction, curraddr)
               /\ stmtno' = stmtno + 1
               /\ addrs2' = Append(addrs2, curraddr)
               /\ UNCHANGED <<SYMTAB, pc, error>>
    /\ UNCHANGED <<inputdata, lineno, result, runs, addrs1, probe>>

\* secondpass: one iteration of the loop over the objects
SecondpassStatement ==
    /\ pc = "pass2"
    /\ stmtno <= Len(instructionlist)
    /\ LET instruction == instructionlist[stmtno]
       IN IF EncodeError(instruction, SYMTAB) # ""
          THEN /\ pc' = "failed"
               /\ error' = EncodeError(instruction, SYMTAB)
               /\ UNCHANGED <<curraddr, instructionlist, stmtno, outputdata, addrs2>>
          ELSE /\ outputdata' = outputdata \o Emitted(instruction, SYMTAB, curraddr)
               /\ instructionlist' = [instructionlist EXCEPT
                                         ![stmtno] = Resolved(instruction, SYMTAB)]
               /\ curraddr' = Nextaddress(instruction, curraddr)
               /\ stmtno' = stmtno + 1
               /\ addrs2' = Append(addrs2, curraddr)
               /\ UNCHANGED <<pc, error>>
    /\ UNCHANGED <<SYMTAB, inputdata, lineno, result, runs, addrs1, probe>>

\* secondpass returns the joined listing and run returns it
SecondpassReturn ==
    /\ pc = "pass2"
    /\ stmtno > Len(instructionlist)
    /\ pc' = "done"
    /\ result' = Returned(outputdata)
    /\ UNCHANGED <<SYMTAB, inputdata, lineno, curraddr, instructionlist, stmtno,
                   outputdata, error, runs, addrs1, addrs2, probe>>

Next ==
    \/ Assemble
    \/ FirstpassLine
    \/ FirstpassReturn
    \/ SecondpassStatement
    \/ SecondpassReturn

Spec == Init /\ [][Next]_vars

NextRuns ==
    \/ Reassemble
    \/ FirstpassLine
    \/ FirstpassReturn
    \/ SecondpassStatement
    \/ SecondpassReturn

SpecRuns == Init /\ [][NextRuns]_vars

\* ---------------------------------------- the .align policy on its own
\* str(n): the decimal text of an integer
DecimalText(n) == IF n < 0 THEN <<"-">> \o HexDigits(0 - n) ELSE HexDigits(n)

\* the object of the line ".align n"
AlignObject(n) == Directive("AlignDirective", <<DecimalText(n)>>)

\* an address and a width are chosen
InitAlign ==
    /\ SYMTAB = EmptyTab
    /\ pc = "idle"
    /\ inputdata = <<>>
    /\ lineno = 1
    /\ curraddr = 0
    /\ instructionlist = <<>>
    /\ stmtno = 1
    /\ outputdata = <<>>
    /\ result = NoResult
    /\ error = ""
    /\ runs = 0
    /\ addrs1 = <<>>
    /\ addrs2 = <<>>
    /\ \E a \in (0 - NegAlignAddrs)..MaxAlignAddr,
          n \in (0 - NegAlignWidths)..MaxAlignWidth :
          probe = [a |-> a, n |-> n, applied |-> 0, r |-> a, prev |-> a]

\* nextaddress of the .align object is applied to the address reached so far
ApplyAlign ==
    /\ probe.applied < 2
    /\ probe' = [probe EXCEPT !.applied = @ + 1,
                              !.prev = probe.r,
                              !.r = Nextaddress(AlignObject(probe.n), probe.r)]
    /\ UNCHANGED <<SYMTAB, pc, inputdata, lineno, curraddr, instructionlist, stmtno,
                   outputdata, result, error, runs, addrs1, addrs2>>

NextAlign == ApplyAlign

SpecAlign == InitAlign /\ [][NextAlign]_vars

TypeOK ==
    /\ pc \in {"idle", "pass1", "pass2", "done", "failed"}
    /\ runs \in 0..MaxRuns

\* ------------------------------------------------- reading a program text
\* the line defines a label
IsLabelLine(line) == line.toks # <<>> /\ line.toks[1][Len(line.toks[1])] = ":"

\* the name a label line defines
LabelName(line) == Strip(line.toks[1], ":")

\* line j defines a label that an earlier line of the text defines too
Redefines(text, j) ==
    /\ IsLabelLine(text[j])
    /\ \E i \in 1..(j - 1) :
          IsLabelLine(text[i]) /\ LabelName(text[i]) = LabelName(text[j])

\* the position in instructionlist of the object made from line j
StmtOf(text, j) == Cardinality({i \in 1..j : text[i].toks # <<>>})

\* the line the k-th object of instructionlist was made from
LineOf(text, k) == CHOOSE j \in 1..Len(text) : text[j].toks # <<>> /\ StmtOf(text, j) = k

\* the names the text defines
Defined(text) == {LabelName(text[j]) : j \in {i \in 1..Len(text) : IsLabelLine(text[i])}}

\* the last line of the text that defines the name
LastDef(text, name) ==
    CHOOSE j \in 1..Len(text) :
        /\ IsLabelLine(text[j]) /\ LabelName(text[j]) = name
        /\ \A i \in (j + 1)..Len(text) :
              ~(IsLabelLine(text[i]) /\ LabelName(text[i]) = name)

\* ------------------------------------------------------------------ C1
\* C1: a program that defines the same label on two lines fails in pass 1
\* with a duplicate-symbol error at the second definition: pass 1 never
\* gets past that line, so the address recorded first is never overwritten.
C1_DuplicateLabelRejected ==
    \A j \in 1..Len(inputdata) :
        Redefines(inputdata, j) =>
            /\ lineno <= j
            /\ (pc = "failed" /\ lineno = j) => error = "Duplicate symbol"

\* ------------------------------------------------------------------ C2
\* C2: for a program pass 1 accepts, the address pass 2 holds when it
\* reaches the k-th object equals the address pass 1 held when it built
\* that object, for every k; and the symbol-table value of every label of
\* the program is the pass-2 address of the object made from the line that
\* recorded it.
C2_PassAddressIdentity ==
    /\ \A k \in 1..Len(addrs2) : addrs2[k] = addrs1[k]
    /\ pc \in {"pass2", "done"} =>
          \A name \in Defined(inputdata) :
              LET k == StmtOf(inputdata, LastDef(inputdata, name))
              IN /\ name \in DOMAIN SYMTAB
                 /\ k <= Len(addrs2) => SYMTAB[name] = addrs2[k]

\* pass 2 has walked a program whose second object sits at a moved address
\* and carries a label
C2_Witness ==
    /\ pc = "done"
    /\ Len(addrs2) = 2
    /\ addrs2[2] \notin {0, 4}
    /\ IsLabelLine(inputdata[Len(inputdata)])
    /\ SYMTAB[LabelName(inputdata[Len(inputdata)])] = addrs2[2]

\* ------------------------------------------------------------------ C3
\* firstpass as a function of the text and of the symbol table it starts
\* from: the loop over the lines from line i on
RECURSIVE firstpass(_, _, _, _, _)
firstpass(text, i, symtab, addr, list) ==
    IF i > Len(text) THEN [error |-> "", SYMTAB |-> symtab, instructionlist |-> list]
    ELSE LET o == firstpassLine(text[i], symtab, addr)
         IN IF o.error # ""
            THEN [error |-> o.error, SYMTAB |-> o.SYMTAB, instructionlist |-> list]
            ELSE firstpass(text, i + 1, o.SYMTAB, o.curraddr,
                           IF o.appended THEN Append(list, o.stmt) ELSE list)

\* secondpass as a function: the loop over the objects from object k on
RECURSIVE secondpass(_, _, _, _, _)
secondpass(list, k, symtab, addr, out) ==
    IF k > Len(list) THEN [error |-> "", result |-> Returned(out)]
    ELSE IF EncodeError(list[k], symtab) # ""
    THEN [error |-> EncodeError(list[k], symtab), result |-> NoResult]
    ELSE secondpass(list, k + 1, symtab, Nextaddress(list[k], addr),
                    out \o Emitted(list[k], symtab, addr))

\* what run(text) raises or returns in a process whose symbol table is symtab
runOutcome(text, symtab) ==
    LET p1 == firstpass(text, 1, symtab, 0, <<>>)
    IN IF p1.error # "" THEN [error |-> p1.error, result |-> NoResult]
       ELSE secondpass(p1.instructionlist, 1, p1.SYMTAB, 0, <<>>)

\* C3: whatever was assembled earlier in the process, a call of run ends as
\* it ends in a fresh process, where the symbol table starts empty: the same
\* listing is returned or the same error is raised.
C3_RunsAreIndependent ==
    pc \in {"done", "failed"} =>
        LET fresh == runOutcome(inputdata, EmptyTab)
        IN result = fresh.result /\ error = fresh.error

\* ------------------------------------------------------------------ C9
\* C9: .align n applied to its own result returns that result:
\* align(align(a, n), n) = align(a, n).
C9_AlignIdempotent == probe.applied = 2 => probe.r = probe.prev

\* .align was applied twice to an address that was not aligned
C9_Witness ==
    /\ probe.applied = 2
    /\ probe.n = 2
    /\ probe.a = 3
    /\ probe.r = 4

\* ------------------------------------------------------------------ C4
\* the k-th object is a branch or jump whose target is a name that a line
\* after the line of the object defines
ForwardRef(k) ==
    LET st == instructionlist[k]
    IN /\ st.cls \in {"Branch", "JType"}
       /\ Symbolic(st).t = "str"
       /\ \E j \in (LineOf(inputdata, k) + 1)..Len(inputdata) :
             IsLabelLine(inputdata[j]) /\ LabelName(inputdata[j]) = Symbolic(st).s

\* the address pass 1 held when it recorded the name for the last time
Pass1Address(name) == addrs1[StmtOf(inputdata, LastDef(inputdata, name))]

\* pass 2 is about to encode the k-th object
Encoding(k) == pc = "pass2" /\ stmtno = k /\ k <= Len(instructionlist)

\* C4: when pass 2 encodes a branch or jump to a label defined on a later
\* line, the lookup succeeds and the emitted word is the one computed from
\* the address pass 1 recorded for the label.
C4_ForwardReference ==
    [][ \A k \in 1..Len(instructionlist) :
          (Encoding(k) /\ ForwardRef(k)) =>
             LET st == instructionlist[k]
                 name == Symbolic(st).s
                 word == IF st.cls = "JType"
                         THEN JTypeEncode(st, Pass1Address(name), curraddr)
                         ELSE BranchEncode(st, Pass1Address(name), curraddr)
             IN /\ pc' = "pass2"
                /\ outputdata' = Append(outputdata, OutLine(curraddr, word))
      ]_vars

\* the jump on line 1 to the label of line 2 was encoded with address 4
C4_Witness ==
    /\ pc = "done"
    /\ Len(inputdata) = 2
    /\ Len(instructionlist) = 2
    /\ instructionlist[1].cls = "JType"
    /\ IsLabelLine(inputdata[2])
    /\ instructionlist[1].name = IntVal(4)
    /\ result.listing[1].encoding = Format08x(Shl(2, 26))

\* ------------------------------------------------------------------ C5
\* the k-th object has a symbolic operand that the symbol table lacks
Unresolvable(k) ==
    LET st == instructionlist[k]
    IN /\ st.cls \in {"IType", "Trap", "Branch", "JType"}
       /\ Symbolic(st).t = "str"
       /\ Symbolic(st).s \notin DOMAIN SYMTAB

\* C5: when pass 2 encodes an instruction whose symbolic operand has no
\* entry in the symbol table, the run fails with the lookup error and
\* returns nothing, whatever lines pass 2 had produced before.
C5_UndefinedSymbolFails ==
    [][ \A k \in 1..Len(instructionlist) :
          (Encoding(k) /\ Unresolvable(k)) =>
             /\ pc' = "failed"
             /\ error' = "KeyError"
             /\ result' = NoResult
      ]_vars

\* the run failed on an undefined symbol after a line had been produced
C5_Witness ==
    /\ pc = "failed"
    /\ error = "KeyError"
    /\ outputdata # <<>>
    /\ result = NoResult

\* ------------------------------------------------------------------ C6
\* the address after the k-th object in pass 2
After2(k) == IF k < Len(addrs2) THEN addrs2[k + 1] ELSE curraddr

\* the k-th object sets the address or moves it by a negative amount
Repositions(k) ==
    LET st == instructionlist[k]
    IN \/ st.cls \in {"TextDirective", "DataDirective"}
       \/ st.cls = "SpaceDirective" /\ PyInt(st.args[1], 10) < 0

\* an argument of a .text, .data or .space object is negative
NegativeArgument ==
    \E k \in 1..Len(instructionlist) :
        LET st == instructionlist[k]
        IN /\ st.cls \in {"TextDirective", "DataDirective", "SpaceDirective"}
           /\ st.args # <<>>
           /\ PyInt(st.args[1], IF st.cls = "SpaceDirective" THEN 10 ELSE 16) < 0

\* C6 as claimed: in both passes the address after every object of an
\* accepted program is at least the address before it, and no address is
\* negative.
C6_AddressNeverDecreases ==
    pc \in {"pass2", "done"} =>
        /\ \A k \in 1..(Len(addrs1) - 1) : addrs1[k + 1] >= addrs1[k]
        /\ \A k \in 1..Len(addrs1) : addrs1[k] >= 0
        /\ \A k \in 1..Len(addrs2) : After2(k) >= addrs2[k] /\ addrs2[k] >= 0
        /\ curraddr >= 0

\* C6 amended: in both passes the address after an object is at least the
\* address before it for every instruction and every directive other than
\* .text, .data and a .space with a negative count; no address is negative
\* unless an argument of .text, .data or .space is negative.
C6_AddressNeverDecreasesUnlessRepositioned ==
    pc \in {"pass2", "done"} =>
        /\ \A k \in 1..(Len(addrs1) - 1) :
              ~Repositions(k) => addrs1[k + 1] >= addrs1[k]
        /\ \A k \in 1..Len(addrs2) : ~Repositions(k) => After2(k) >= addrs2[k]
        /\ ~NegativeArgument =>
              /\ \A k \in 1..Len(addrs1) : addrs1[k] >= 0
              /\ \A k \in 1..Len(addrs2) : addrs2[k] >= 0
              /\ curraddr >= 0

\* pass 2 has moved the address up over an .align object
C6_Witness ==
    /\ pc = "done"
    /\ \E k \in 1..Len(addrs2) :
          /\ instructionlist[k].cls = "AlignDirective"
          /\ After2(k) > addrs2[k]

\* ------------------------------------------------------------------ C7
\* the mnemonic of a line
Mnemonic(line) == IF IsLabelLine(line) THEN SecondToken(line) ELSE line.toks[1]

\* every mnemonic of the tables but nop takes operands
RequiresOperands(tok) == tok \in DOMAIN OPCODES /\ tok # <<"nop">>

\* an instruction that requires operands, for which no pattern matches
NoPattern(line) ==
    /\ line.toks # <<>>
    /\ RequiresOperands(Mnemonic(line))
    /\ parseoperands(IsLabelLine(line), line.ops) = NoOperands

\* C7: an instruction that requires operands and for which the operand
\* matcher finds no pattern fails the assembly with an
\* unrecognized-operand-syntax error: pass 1 never gets past its line, so it
\* is never encoded with default operand values.
C7_NoPatternIsAnError ==
    \A j \in 1..Len(inputdata) :
        NoPattern(inputdata[j]) =>
            /\ lineno <= j
            /\ (pc = "failed" /\ lineno = j) => error = "Unrecognized operand syntax"

\* ------------------------------------------------------------------ C8
\* a line that consists of a label only
LabelOnly(line) ==
    IsLabelLine(line) /\ Len(line.toks) = 1 /\ line.ops = <<>> /\ line.args = <<>>

\* the no-op instruction object: nop without operands
NopObject == opcodehandler(<<"nop">>, NoOperands)

\* C8: a line that consists of a label only makes pass 1 bind the label to
\* the current address, store exactly one no-op object and advance the
\* address by 4; pass 2 emits exactly one line for that object, stamped with
\* the address the label was bound to, and advances by 4.
C8_LabelOnlyLine ==
    [][ /\ (pc = "pass1" /\ lineno <= Len(inputdata) /\ LabelOnly(inputdata[lineno])) =>
             /\ pc' = "pass1"
             /\ LabelName(inputdata[lineno]) \in DOMAIN SYMTAB'
             /\ SYMTAB'[LabelName(inputdata[lineno])] = curraddr
             /\ instructionlist' = Append(instructionlist, NopObject)
             /\ curraddr' = curraddr + 4
        /\ \A k \in 1..Len(instructionlist) :
             (Encoding(k) /\ LabelOnly(inputdata[LineOf(inputdata, k)])) =>
                /\ pc' = "pass2"
                /\ outputdata' = Append(outputdata,
                       [address |-> Format08x(addrs1[k]),
                        encoding |-> RALUEncode(NopObject)])
                /\ curraddr' = addrs1[k] + 4
      ]_vars

\* a label-only line at address 3 was assembled to one line stamped 3
C8_Witness ==
    /\ pc = "done"
    /\ Len(inputdata) = 2
    /\ LabelOnly(inputdata[2])
    /\ SYMTAB[LabelName(inputdata[2])] = 3
    /\ Len(result.listing) = 1
    /\ result.listing[1].address = Format08x(3)
    /\ curraddr = 7

\* ----------------------------------------------------------------- C10
\* the fields of a word under the documented layouts
\* ALU: opcode:6 | rs1:5 | rs2:5 | rdest:5 | zero:5 | func:6
\* FPU: opcode:6 | rs1:5 | rs2:5 | rdest:5 | zero:6 | func:5
Field(w, low, width) == (w \div Pow2(low)) % Pow2(width)

DecodeR(cls, w) ==
    [opcode |-> Field(w, 26, 6), rs1 |-> Field(w, 21, 5), rs2 |-> Field(w, 16, 5),
     rdest |-> Field(w, 11, 5),
     func |-> IF cls = "RALU" THEN Field(w, 0, 6) ELSE Field(w, 0, 5)]

\* C10: the line pass 2 emits for a RALU or RFPU object holds a word of 8
\* hex digits whose fields, read under the documented layout, are the
\* opcode, rs1, rs2, rdest and func of the object.
C10_RTypeRoundTrip ==
    [][ \A k \in 1..Len(instructionlist) :
          (Encoding(k) /\ instructionlist[k].cls \in {"RALU", "RFPU"}) =>
             LET st == instructionlist[k]
                 hex == outputdata'[Len(outputdata')].encoding
             IN /\ Len(outputdata') = Len(outputdata) + 1
                /\ Len(hex) = 8
                /\ DecodeR(st.cls, ParseDigits(hex, 16)) =
                      [opcode |-> st.opcode, rs1 |-> st.rs1, rs2 |-> st.rs2,
                       rdest |-> st.rdest, func |-> st.func]
      ]_vars

\* ----------------------------------------------------------------- C11
\* the width of the immediate field of a branch (16) or of a jump (26)
FieldWidth(st) == IF st.cls = "JType" THEN 26 ELSE 16

\* a field of w bits read as a two's complement number
SignExtend(f, w) == IF f >= Pow2(w - 1) THEN f - Pow2(w) ELSE f

\* the target of a branch or jump: its numeric operand, or the address the
\* symbol table holds for its name
Target(st) == IF Symbolic(st).t = "str" THEN SYMTAB[Symbolic(st).s] ELSE Symbolic(st).v

\* the offset fits the field of w bits
Representable(off, w) == (0 - Pow2(w - 1)) <= off /\ off < Pow2(w - 1)

\* C11: the word pass 2 emits for a branch or jump whose target resolves
\* holds, in its low 16 or 26 bits, target - (address + 4) masked to the
\* field width; when that offset fits the field, address + 4 plus the
\* sign-extended field is the target again.
C11_PCRelativeRoundTrip ==
    [][ \A k \in 1..Len(instructionlist) :
          (/\ Encoding(k)
           /\ instructionlist[k].cls \in {"Branch", "JType"}
           /\ ~Unresolvable(k)) =>
             LET st == instructionlist[k]
                 w == FieldWidth(st)
                 off == Target(st) - (curraddr + 4)
                 hex == outputdata'[Len(outputdata')].encoding
                 field == Field(ParseDigits(hex, 16), 0, w)
             IN /\ Len(outputdata') = Len(outputdata) + 1
                /\ Len(hex) = 8
                /\ field = off % Pow2(w)
                /\ Representable(off, w) =>
                      Target(st) = curraddr + 4 + SignExtend(field, w)
      ]_vars

\* the jump at address 4 to the label at address 0 was encoded with the
\* offset -8 masked to 26 bits
C11_Witness ==
    /\ pc = "done"
    /\ Len(instructionlist) = 2
    /\ instructionlist[2].cls = "JType"
    /\ addrs2[2] = 4
    /\ instructionlist[2].name = IntVal(0)
    /\ Field(ParseDigits(result.listing[2].encoding, 16), 0, 26) = Pow2(26) - 8

\* ----------------------------------------------------------------- C12
\* r is the least multiple of 2^n that is at least a. For negative n, 2^n
\* is 1/2, 1/4, ... and every integer is a multiple of it.
LeastMultiple(r, a, n) ==
    IF n < 0 THEN r = a
    ELSE /\ r % Pow2(n) = 0
         /\ r >= a
         /\ r - a < Pow2(n)
         /\ (a % Pow2(n) = 0) => r = a
         /\ \A m \in a..r : (m % Pow2(n) = 0) => m = r

\* C12: the address .align n returns is the least multiple of 2^n that is
\* greater than or equal to the address before it: a multiple of 2^n, at
\* least the input, less than 2^n above it, and the input itself when that
\* is aligned already.
C12_AlignLeastMultiple ==
    probe.applied >= 1 => LeastMultiple(probe.r, probe.prev, probe.n)

\* .align 3 was applied to the address 5 and returned 8
C12_Witness ==
    /\ probe.applied = 1
    /\ probe.n = 3
    /\ probe.prev = 5
    /\ probe.r = 8

\* ----------------------------------------------------------------- C13
\* the directives that insert data
DataClasses == {"AsciizDirective", "WordDirective", "FloatDirective", "DoubleDirective"}

\* the bytes the i-th argument of a data directive takes: the string
\* without its quotes and its terminator, a word or float, a double
ItemSize(st, i) ==
    CASE st.cls = "AsciizDirective" -> Len(Strip(st.args[i], "\"")) + 1
      [] st.cls = "DoubleDirective" -> 8
      [] OTHER -> 4

\* the bytes the arguments before the k-th take
RECURSIVE SizeBefore(_, _)
SizeBefore(st, k) ==
    IF k <= 1 THEN 0 ELSE SizeBefore(st, k - 1) + ItemSize(st, k - 1)

\* C13: when pass 2 processes a .asciiz, .word, .float or .double object
\* with N arguments at address A, it emits exactly N lines, the k-th
\* stamped with A plus the sizes of the k-1 arguments before it, and the
\* address after the object is the N-th stamp plus the size of the last
\* argument; no line of a .asciiz object is stamped with that end address.
C13_DataDirectiveStamps ==
    [][ \A k \in 1..Len(instructionlist) :
          (/\ Encoding(k)
           /\ instructionlist[k].cls \in DataClasses
           /\ pc' = "pass2") =>
             LET st == instructionlist[k]
                 N == Len(st.args)
                 A == curraddr
                 stamp(i) == outputdata'[Len(outputdata) + i].address
             IN /\ Len(outputdata') = Len(outputdata) + N
                /\ SubSeq(outputdata', 1, Len(outputdata)) = outputdata
                /\ \A i \in 1..N : stamp(i) = Format08x(A + SizeBefore(st, i))
                /\ curraddr' = A + SizeBefore(st, N + 1)
                /\ N >= 1 => curraddr' = A + SizeBefore(st, N) + ItemSize(st, N)
                /\ st.cls = "AsciizDirective" =>
                      \A i \in 1..N : stamp(i) # Format08x(A + SizeBefore(st, N + 1))
      ]_vars

\* .asciiz "hi", "h" at address 0x10 gave two lines stamped 0x10 and 0x13
\* and the address 0x15 after it
C13_Witness ==
    /\ pc = "done"
    /\ Len(instructionlist) = 2
    /\ instructionlist[2].cls = "AsciizDirective"
    /\ addrs2[2] = 16
    /\ Len(result.listing) = 2
    /\ result.listing[1].address = Format08x(16)
    /\ result.listing[2].address = Format08x(19)
    /\ curraddr = 21

\* ----------------------------------------------------------------- C14
\* pass 1 has gone through every line of the text
Pass1Over == pc \in {"pass2", "done", "failed"} /\ lineno > Len(inputdata)

\* C14: no step of pass 2, the encode of an object with its deferred
\* resolution included, adds, removes or changes an entry of the symbol
\* table, whether the step succeeds or fails; so from the end of pass 1 on
\* the table is the table pass 1 built from the text.
C14_SymtabReadOnlyInPass2 ==
    /\ [][pc = "pass2" => SYMTAB' = SYMTAB]_vars
    /\ [](Pass1Over => SYMTAB = firstpass(inputdata, 1, EmptyTab, 0, <<>>).SYMTAB)

\* pass 2 resolved the target of a branch from the table and the table is
\* as pass 1 left it
C14_Witness ==
    /\ pc = "done"
    /\ Len(inputdata) = 2
    /\ Len(instructionlist) = 2
    /\ instructionlist[2].cls = "Branch"
    /\ Shape(inputdata[2].ops, 2) = "name"
    /\ instructionlist[2].immediate = IntVal(0)
    /\ DOMAIN SYMTAB = {<<"a">>}
    /\ SYMTAB[<<"a">>] = 0

\* ----------------------------------------------------------------- C15
\* C15: a run fails with a duplicate-symbol error only at a line that
\* defines a label an earlier line defined; a line whose first token is a
\* directive or a mnemonic is never rejected as a duplicate symbol,
\* whatever names the symbol table holds.
C15_DuplicateOnlyForLabels ==
    (pc = "failed" /\ error = "Duplicate symbol") =>
        /\ IsLabelLine(inputdata[lineno])
        /\ Redefines(inputdata, lineno)

====
